---- MODULE Spec2Model ----
(***************************************************************************)
(* The real-time broadcast hub of the realtime-chat and task-management    *)
(* templates: Hub (rooms/projects map, register/unregister/broadcast       *)
(* channels, dispatcher loop Run), the upgrade handler HandleConnection,   *)
(* the per-connection ReadPump and WritePump, and the service-layer        *)
(* callers of Hub.Broadcast.                                               *)
(*                                                                         *)
(* variant = "chat" : src/unnamed/part_013 (hub), src/unnamed/part_014     *)
(*                    (client), realtime-chat/.../websocket/handler.go     *)
(* variant = "task" : src/unnamed/part_007 (hub),                          *)
(*                    task-management-app/.../websocket/client.go          *)
(***************************************************************************)
EXTENDS Integers, Sequences, FiniteSets, TLC

VARIABLES
    variant,     \* which of the two hub implementations runs
    rooms,       \* Hub.rooms / Hub.projects : room id -> set of clients (a map: DOMAIN = keys)
    send,        \* Client.send : buffered channel contents, per client
    closed,      \* Client.send has been closed
    broadcast,   \* Hub.broadcast : buffered channel contents
    sendq,       \* Hub.broadcast : the senders parked on the full channel, in order
    hubPc,       \* the dispatcher goroutine (Hub.Run): at its select, or dead
    rpc,         \* per client: position of HandleConnection, then of ReadPump
    rmsg,        \* per client: the message ReadPump is about to Broadcast
    wpc,         \* per client: position of WritePump
    wire,        \* per client: events flushed to the peer, in order
    conn,        \* per client: the transport is open
    svc,         \* per service goroutine: the message it is blocked sending, or None
    spawned,     \* bag of messages of the `go h.Broadcast(...)` goroutines still blocked
    nextId,      \* number of the next event created by a caller
    trace,       \* whether events carry their number and the peers' input is recorded
    mu,          \* Hub.mu : the holders of the sync.RWMutex
    hubArg,      \* the client or message the dispatcher's handler was called with
    hubRange,    \* the clients broadcastMessage's range loop has still to visit
    gpc,         \* the HTTP handler goroutine calling Hub.GetOnlineUsers: its position
    gRoom,       \* the room id it asks for
    gRange,      \* the clients its range loop has still to visit
    gUsers,      \* the user ids it has collected
    malformed,   \* per client: the frames its read pump could not decode
    now,         \* the time, in seconds since the hub started
    readDeadline,\* per client: the read deadline set on its transport
    nextPing     \* per client: when its write pump's ticker fires next

vars == <<variant, rooms, send, closed, broadcast, sendq, hubPc, rpc, rmsg,
          wpc, wire, conn, svc, spawned, nextId, trace,
          mu, hubArg, hubRange, gpc, gRoom, gRange, gUsers, malformed,
          now, readDeadline, nextPing>>

----------------------------------------------------------------------------
(* Bounds of the model *)

\* capacity of Client.send; make(chan ..., 256) in the source
SendCap == 1
\* capacity of Client.send in the runs that record the peers' input, where a
\* write pump finds several events queued
SendCapTrace == 2
\* capacity of Hub.broadcast; make(chan *Message, 256) in the source
BroadcastCap == 2
\* number of events the service layer and the read pumps create in a run
MaxEvents == 2
\* number of events the service layer creates in a run of the task hub, which
\* broadcasts a join and a leave event of its own for every connection
MaxTaskEvents == 1
MaxMalformed == 1
MaxTime == 130

----------------------------------------------------------------------------
(* Connections, as the upgrade handler creates them (NewClient) *)

Clients == {"c1", "c2", "c3", "c4"}
Rooms == {10, 20}
Users == {1, 2, 3}

\* NewClient(hub, conn, roomID, userID): the identities of the connections
RoomID(c) == CASE c = "c1" -> 10 [] c = "c2" -> 10 [] c = "c3" -> 20 [] OTHER -> 10
UserID(c) == CASE c = "c1" -> 1 [] c = "c2" -> 2 [] c = "c3" -> 3 [] OTHER -> 1

\* the connections that are opened in one run: two users in one room, two
\* rooms, one user with two connections in one room
Populations == {{"c1", "c2"}, {"c1", "c3"}, {"c1", "c4"}}

Services == {"s1"}

\* the <<room, user>> pairs of the events the service layer broadcasts: the
\* user of a connection of the room, a user with no connection in the room,
\* the other room
ServiceEvents == {<<10, 1>>, <<10, 3>>, <<20, 3>>}

MessageTypeTyping == "TYPING"
MessageTypeNewMessage == "NEW_MESSAGE"
TypeTaskCreated == "TASK_CREATED"
TypeUserJoined == "USER_JOINED"
TypeUserLeft == "USER_LEFT"

\* the event types a caller outside the hub broadcasts
EventTypes(v) == IF v = "chat" THEN {MessageTypeTyping, MessageTypeNewMessage}
                 ELSE {TypeTaskCreated}

Message(t, r, u, i, f) == [type |-> t, room |-> r, user |-> u, id |-> i, from |-> f]

\* no message
None == Message("none", 0, 0, 0, "")
\* the websocket.CloseMessage control frame WritePump sends last
CloseFrame == Message("CLOSE", 0, 0, 0, "")

\* the message of a `go h.Broadcast(&Message{...})` goroutine of the task hub
GoMessage(c, t) == Message(t, RoomID(c), UserID(c), 0, "go")

----------------------------------------------------------------------------
(* Hub: the handlers the dispatcher runs, as functions of the hub state *)

\* (mutant) the chat hub withholds as the task hub does
Suppressed_AnyType(v, m, c) == UserID(c) = m.user

\* (mutant) the task hub withholds as the chat hub does
Suppressed_TypingOnly(v, m, c) == m.type = MessageTypeTyping /\ UserID(c) = m.user

\* the echo-suppression test at the head of broadcastMessage's loop
Suppressed(v, m, c) ==
    IF v = "chat" THEN m.type = MessageTypeTyping /\ UserID(c) = m.user
    ELSE UserID(c) = m.user

\* (mutant) the room's set is made anew at every registration
registerClient_rooms_Resets(rm, c) ==
    [r \in (DOMAIN rm) \cup {RoomID(c)} |-> IF r = RoomID(c) THEN {c} ELSE rm[r]]

\* h.rooms[client.RoomID][client] = true, creating the set if absent
registerClient_rooms(rm, c) ==
    [r \in (DOMAIN rm) \cup {RoomID(c)} |->
        IF r = RoomID(c)
        THEN (IF r \in DOMAIN rm THEN rm[r] ELSE {}) \cup {c}
        ELSE rm[r]]

\* (mutant) the test looks the room up but not the client in its set
InRoom_RoomOnly(rm, c) == RoomID(c) \in DOMAIN rm

\* the `exists` test of unregisterClient
InRoom(rm, c) == RoomID(c) \in DOMAIN rm /\ c \in rm[RoomID(c)]

\* (mutant) the emptied set is left in the map
unregisterClient_rooms_KeepsKey(rm, c) ==
    IF ~InRoom(rm, c) THEN rm
    ELSE [rm EXCEPT ![RoomID(c)] = @ \ {c}]

\* (mutant) the client is left in its set
unregisterClient_rooms_NoDelete(rm, c) == rm

\* delete(clients, client); if len(clients) == 0 { delete(h.rooms, client.RoomID) }
unregisterClient_rooms(rm, c) ==
    IF ~InRoom(rm, c) THEN rm
    ELSE IF rm[RoomID(c)] = {c}
         THEN [r \in (DOMAIN rm) \ {RoomID(c)} |-> rm[r]]
         ELSE [rm EXCEPT ![RoomID(c)] = @ \ {c}]

\* (mutant) the loop ranges over the clients of every room
Offered_AnyRoom(v, rm, m) ==
    {c \in UNION {rm[r] : r \in DOMAIN rm} : ~Suppressed(v, m, c)}

\* the clients broadcastMessage's loop reaches the select for
Offered(v, rm, m) ==
    IF m.room \in DOMAIN rm
    THEN {c \in rm[m.room] : ~Suppressed(v, m, c)}
    ELSE {}

\* cap(client.send)
Cap == IF trace THEN SendCapTrace ELSE SendCap

\* select { case client.send <- message: ... }
Delivered(v, rm, sd, m) == {c \in Offered(v, rm, m) : Len(sd[c]) < Cap}

\* select { ... default: close(client.send); delete(clients, client) }
Dropped(v, rm, sd, m) == {c \in Offered(v, rm, m) : Len(sd[c]) >= Cap}

\* (mutant) a missing room gets an empty set
broadcastMessage_rooms_CreatesRoom(v, rm, sd, m) ==
    IF m.room \in DOMAIN rm
    THEN [rm EXCEPT ![m.room] = @ \ Dropped(v, rm, sd, m)]
    ELSE [r \in (DOMAIN rm) \cup {m.room} |-> IF r = m.room THEN {} ELSE rm[r]]

\* (mutant) a full queue is closed but the client stays in the set
broadcastMessage_rooms_KeepsSlow(v, rm, sd, m) == rm

broadcastMessage_rooms(v, rm, sd, m) ==
    IF m.room \in DOMAIN rm
    THEN [rm EXCEPT ![m.room] = @ \ Dropped(v, rm, sd, m)]
    ELSE rm

\* (mutant) the event goes to the head of the queue of the second connection
broadcastMessage_send_AtHead(v, rm, sd, m) ==
    [c \in Clients |->
        IF c \in Delivered(v, rm, sd, m)
        THEN (IF c = "c2" THEN <<m>> \o sd[c] ELSE Append(sd[c], m))
        ELSE sd[c]]

\* (mutant) the event is enqueued twice
broadcastMessage_send_Twice(v, rm, sd, m) ==
    [c \in Clients |->
        IF c \in Delivered(v, rm, sd, m) THEN Append(Append(sd[c], m), m) ELSE sd[c]]

broadcastMessage_send(v, rm, sd, m) ==
    [c \in Clients |-> IF c \in Delivered(v, rm, sd, m) THEN Append(sd[c], m) ELSE sd[c]]

\* GetOnlineUsers: the distinct user ids of the room's clients
GetOnlineUsers(rm, r) ==
    IF r \in DOMAIN rm THEN {UserID(c) : c \in rm[r]} ELSE {}

\* GetRoomCount: len(h.rooms)
GetRoomCount(rm) == Cardinality(DOMAIN rm)

----------------------------------------------------------------------------
(* Initial state: NewHub(), `go hub.Run()`, and every connection's         *)
(* HandleConnection at h.hub.Register(client), blocked on the unbuffered   *)
(* register channel until the dispatcher selects it.                       *)

InitHub(variants, pops) ==
    /\ variant \in variants
    /\ rooms = <<>>
    /\ send = [c \in Clients |-> <<>>]
    /\ closed = [c \in Clients |-> FALSE]
    /\ broadcast = <<>>
    /\ sendq = <<>>
    /\ hubPc = "select"
    /\ \E P \in pops :
          rpc = [c \in Clients |-> IF c \in P THEN "Register" ELSE "absent"]
    /\ rmsg = [c \in Clients |-> None]
    /\ wpc = [c \in Clients |-> "new"]
    /\ wire = [c \in Clients |-> <<>>]
    /\ conn = [c \in Clients |-> TRUE]
    /\ svc = [s \in Services |-> None]
    /\ spawned = {}
    /\ nextId = 1
    /\ mu = [w |-> "", r |-> {}]
    /\ hubArg = [client |-> "", message |-> None]
    /\ hubRange = {}
    /\ gpc = "idle"
    /\ gRoom = 0
    /\ gRange = {}
    /\ gUsers = {}
    /\ malformed = [c \in Clients |-> 0]
    /\ now = 0
    /\ readDeadline = [c \in Clients |-> 0]
    /\ nextPing = [c \in Clients |-> 0]

Init == InitHub({"chat", "task"}, Populations) /\ trace = FALSE

\* the chat hub with two connections in one room, the events numbered and the
\* peers' input recorded
InitTrace == InitHub({"chat"}, {{"c1", "c2"}}) /\ trace = TRUE

\* the number an event created now carries
EventId == IF trace THEN nextId ELSE 0

\* the number of events the callers outside the hub create
EventBudget == IF variant = "task" /\ ~trace THEN MaxTaskEvents ELSE MaxEvents

\* an unrecovered panic in the dispatcher goroutine ends the process
Running == hubPc # "panic"

hubVars == <<rooms, send, closed, hubPc>>
chanVars == <<broadcast, sendq>>
readVars == <<rpc, rmsg>>
writeVars == <<wpc, wire>>
lockVars == <<mu, hubArg, hubRange>>
getVars == <<gpc, gRoom, gRange, gUsers>>
timeVars == <<now, readDeadline, nextPing>>

----------------------------------------------------------------------------
(* Hub.broadcast, a buffered channel: a send puts the message in the       *)
(* buffer if it has room, and else parks the sender at the tail of the     *)
(* channel's send queue; a receive takes the head of the buffer and moves  *)
(* the message of the first parked sender into the buffer, and that        *)
(* sender's Broadcast returns.                                             *)

\* Time allowed to read the next pong message from the peer, in seconds
pongWait == 60

\* Send pings to peer with this period (must be less than pongWait)
pingPeriod == (pongWait * 9) \div 10

\* ReadPump's c.conn.SetReadDeadline(time.Now().Add(pongWait)) and WritePump's
\* time.NewTicker(pingPeriod), as the two pumps of c start
StartPumps(c) ==
    /\ readDeadline' = [readDeadline EXCEPT ![c] = now + pongWait]
    /\ nextPing' = [nextPing EXCEPT ![c] = now + pingPeriod]
    /\ UNCHANGED now

\* the callers of Hub.Broadcast
Service(s) == <<"service", s>>
Reader(c) == <<"ReadPump", c>>
Spawned(c, t) == <<"go", c, t>>

HasRoom(bc) == Len(bc) < BroadcastCap

Parked(q, w) == \E i \in 1..Len(q) : q[i].who = w

\* (mutant) the message is put in the buffer twice
Broadcast_buffer_Twice(bc, m) == IF HasRoom(bc) THEN Append(Append(bc, m), m) ELSE bc

\* h.broadcast <- message, by the caller w
Broadcast_buffer(bc, m) == IF HasRoom(bc) THEN Append(bc, m) ELSE bc
Broadcast_sendq(bc, q, w, m) ==
    IF HasRoom(bc) THEN q ELSE Append(q, [who |-> w, message |-> m])

\* message := <-h.broadcast
Recv_buffer(bc, q) ==
    IF q = <<>> THEN Tail(bc) ELSE Append(Tail(bc), Head(q).message)
Recv_sendq(q) == IF q = <<>> THEN q ELSE Tail(q)

\* the sender the receive wakes, if any
Woken(q, w) == q # <<>> /\ Head(q).who = w

----------------------------------------------------------------------------
(* Hub.Run: one iteration of the dispatcher loop per action, the select's  *)
(* receive together with the handler it calls                              *)

\* case client := <-h.register: h.registerClient(client)
\* (HandleConnection's Register returns; it starts `go client.WritePump()`
\* and `go client.ReadPump()`)
Run_register(c) ==
    /\ hubPc = "select"
    /\ rpc[c] = "Register"
    /\ rpc' = [rpc EXCEPT ![c] = "read"]
    /\ wpc' = [wpc EXCEPT ![c] = "select"]
    /\ rooms' = registerClient_rooms(rooms, c)
    /\ spawned' = IF variant = "task"
                  THEN spawned \cup {<<c, TypeUserJoined>>}
                  ELSE spawned
    /\ StartPumps(c)
    /\ UNCHANGED <<variant, trace, malformed, send, closed, chanVars, hubPc, rmsg, wire,
                   conn, svc, nextId, lockVars, getVars>>

\* (mutant) unregisterClient closes client.send without the `exists` test
Run_unregister_NoTest(c) ==
    /\ hubPc = "select"
    /\ rpc[c] = "Unregister"
    /\ rpc' = [rpc EXCEPT ![c] = "Close"]
    /\ IF closed[c]
       THEN /\ hubPc' = "panic"
            /\ UNCHANGED <<rooms, closed, spawned>>
       ELSE /\ rooms' = unregisterClient_rooms(rooms, c)
            /\ closed' = [closed EXCEPT ![c] = TRUE]
            /\ spawned' = IF variant = "task"
                          THEN spawned \cup {<<c, TypeUserLeft>>}
                          ELSE spawned
            /\ UNCHANGED hubPc
    /\ UNCHANGED <<variant, trace, malformed, timeVars, send, chanVars, rmsg, writeVars,
                   conn, svc, nextId, lockVars, getVars>>

\* case client := <-h.unregister: h.unregisterClient(client)
\* (ReadPump's deferred Unregister returns)
Run_unregister(c) ==
    /\ hubPc = "select"
    /\ rpc[c] = "Unregister"
    /\ rpc' = [rpc EXCEPT ![c] = "Close"]
    /\ IF InRoom(rooms, c)
       THEN IF closed[c]
            THEN \* close of a closed channel
                 /\ hubPc' = "panic"
                 /\ UNCHANGED <<rooms, closed, spawned>>
            ELSE /\ rooms' = unregisterClient_rooms(rooms, c)
                 /\ closed' = [closed EXCEPT ![c] = TRUE]
                 /\ spawned' = IF variant = "task"
                               THEN spawned \cup {<<c, TypeUserLeft>>}
                               ELSE spawned
                 /\ UNCHANGED hubPc
       ELSE UNCHANGED <<rooms, closed, spawned, hubPc>>
    /\ UNCHANGED <<variant, trace, malformed, timeVars, send, chanVars, rmsg, writeVars, conn, svc, nextId,
                   lockVars, getVars>>

\* the callers' side of the receive: the woken sender's Broadcast returns
Recv_wake ==
    /\ svc' = [s \in Services |-> IF Woken(sendq, Service(s)) THEN None ELSE svc[s]]
    /\ rpc' = [c \in Clients |-> IF Woken(sendq, Reader(c)) THEN "read" ELSE rpc[c]]
    /\ rmsg' = [c \in Clients |-> IF Woken(sendq, Reader(c)) THEN None ELSE rmsg[c]]
    /\ spawned' = {g \in spawned : ~Woken(sendq, Spawned(g[1], g[2]))}

\* (mutant) broadcastMessage sends with a plain `client.send <- message`, which
\* waits for the write pump when the queue is full
Run_broadcast_Blocking ==
    /\ hubPc = "select"
    /\ broadcast # <<>>
    /\ \A c \in Offered(variant, rooms, Head(broadcast)) : Len(send[c]) < Cap
    /\ broadcast' = Recv_buffer(broadcast, sendq)
    /\ sendq' = Recv_sendq(sendq)
    /\ Recv_wake
    /\ rooms' = rooms
    /\ send' = broadcastMessage_send(variant, rooms, send, Head(broadcast))
    /\ UNCHANGED <<variant, trace, malformed, timeVars, closed, hubPc, writeVars, conn, nextId,
                   lockVars, getVars>>

\* case message := <-h.broadcast: h.broadcastMessage(message)
Run_broadcast ==
    /\ hubPc = "select"
    /\ broadcast # <<>>
    /\ broadcast' = Recv_buffer(broadcast, sendq)
    /\ sendq' = Recv_sendq(sendq)
    /\ Recv_wake
    /\ LET m == Head(broadcast) IN
        IF \E c \in Offered(variant, rooms, m) : closed[c]
        THEN \* send on (or close of) a closed channel
             /\ hubPc' = "panic"
             /\ UNCHANGED <<rooms, send, closed>>
        ELSE /\ rooms' = broadcastMessage_rooms(variant, rooms, send, m)
             /\ send' = broadcastMessage_send(variant, rooms, send, m)
             /\ closed' = [c \in Clients |->
                             closed[c] \/ c \in Dropped(variant, rooms, send, m)]
             /\ UNCHANGED hubPc
    /\ UNCHANGED <<variant, trace, malformed, timeVars, writeVars, conn, nextId, lockVars, getVars>>

----------------------------------------------------------------------------
(* Hub.Broadcast and its callers: h.broadcast <- message *)

\* a service goroutine builds an event and calls s.hub.Broadcast(message); the
\* call returns at once if the channel has room
Service_Broadcast(s, t, r, u) ==
    /\ Running
    /\ svc[s] = None
    /\ nextId <= EventBudget
    /\ LET m == Message(t, r, u, EventId, s) IN
        /\ broadcast' = Broadcast_buffer(broadcast, m)
        /\ sendq' = Broadcast_sendq(broadcast, sendq, Service(s), m)
        /\ svc' = IF HasRoom(broadcast) THEN svc ELSE [svc EXCEPT ![s] = m]
    /\ nextId' = nextId + 1
    /\ UNCHANGED <<variant, trace, malformed, timeVars, hubVars, readVars, writeVars, conn, spawned,
                   lockVars, getVars>>

\* a `go h.Broadcast(...)` goroutine runs: h.broadcast <- message
Broadcast_spawned(c, t) ==
    /\ Running
    /\ <<c, t>> \in spawned
    /\ ~Parked(sendq, Spawned(c, t))
    /\ broadcast' = Broadcast_buffer(broadcast, GoMessage(c, t))
    /\ sendq' = Broadcast_sendq(broadcast, sendq, Spawned(c, t), GoMessage(c, t))
    /\ spawned' = IF HasRoom(broadcast) THEN spawned \ {<<c, t>>} ELSE spawned
    /\ UNCHANGED <<variant, trace, malformed, timeVars, hubVars, readVars, writeVars, conn, svc, nextId,
                   lockVars, getVars>>

----------------------------------------------------------------------------
(* Client.ReadPump *)

\* the frames a peer sends: a type and the room_id and user_id fields the
\* peer chose to put in
FrameIdentities == {<<10, 1>>, <<20, 3>>}
Frames(v) == {[type |-> t, room |-> e[1], user |-> e[2]] :
                 t \in EventTypes(v), e \in FrameIdentities}

\* (mutant) the room and user of the frame are kept
SetClientInfo_FromFrame(c, f, i) == Message(f.type, f.room, f.user, i, c)

\* message.RoomID = c.RoomID; message.UserID = c.UserID
SetClientInfo(c, f, i) == Message(f.type, RoomID(c), UserID(c), i, c)

\* what a peer can send besides a frame that decodes: bytes that are no JSON
\* object
Garbage == [raw |-> "not json"]
RawFrames(v) == Frames(v) \cup {Garbage}

\* json.Unmarshal(messageData, &message) returns an error
Unmarshal_err(d) == "type" \notin DOMAIN d

\* (mutant) the read pump breaks out of its loop on a frame it cannot decode
ReadPump_ReadMessage_Breaks(c, d) ==
    /\ Running
    /\ rpc[c] = "read"
    /\ conn[c]
    /\ IF variant = "chat" /\ Unmarshal_err(d)
       THEN /\ malformed[c] < MaxMalformed
            /\ malformed' = [malformed EXCEPT ![c] = @ + 1]
            /\ rpc' = [rpc EXCEPT ![c] = "Unregister"]
            /\ UNCHANGED <<chanVars, rmsg, nextId>>
       ELSE /\ nextId <= EventBudget
            /\ IF variant = "chat"
               THEN LET m == SetClientInfo(c, d, EventId) IN
                    /\ broadcast' = Broadcast_buffer(broadcast, m)
                    /\ sendq' = Broadcast_sendq(broadcast, sendq, Reader(c), m)
                    /\ rmsg' = IF HasRoom(broadcast) THEN rmsg ELSE [rmsg EXCEPT ![c] = m]
                    /\ rpc' = IF HasRoom(broadcast) THEN rpc ELSE [rpc EXCEPT ![c] = "Broadcast"]
               ELSE UNCHANGED <<chanVars, readVars>>
            /\ nextId' = nextId + 1
            /\ UNCHANGED malformed
    /\ UNCHANGED <<variant, trace, timeVars, hubVars, writeVars, conn, svc, spawned,
                   lockVars, getVars>>

\* ReadMessage returns a frame.  chat: it decodes, and a frame that does not
\* decode is logged and the loop reads on; else RoomID/UserID are set from
\* the connection and the message goes to c.hub.Broadcast, which returns at
\* once if the channel has room.  task: the frame is dropped and the loop
\* reads on.
ReadPump_ReadMessage(c, d) ==
    /\ Running
    /\ rpc[c] = "read"
    /\ conn[c]
    /\ IF variant = "chat" /\ Unmarshal_err(d)
       THEN /\ malformed[c] < MaxMalformed
            /\ malformed' = [malformed EXCEPT ![c] = @ + 1]
            /\ UNCHANGED <<chanVars, readVars, nextId>>
       ELSE /\ nextId <= EventBudget
            /\ IF variant = "chat"
               THEN LET m == SetClientInfo(c, d, EventId) IN
                    /\ broadcast' = Broadcast_buffer(broadcast, m)
                    /\ sendq' = Broadcast_sendq(broadcast, sendq, Reader(c), m)
                    /\ rmsg' = IF HasRoom(broadcast) THEN rmsg ELSE [rmsg EXCEPT ![c] = m]
                    /\ rpc' = IF HasRoom(broadcast) THEN rpc ELSE [rpc EXCEPT ![c] = "Broadcast"]
               ELSE UNCHANGED <<chanVars, readVars>>
            /\ nextId' = nextId + 1
            /\ UNCHANGED malformed
    /\ UNCHANGED <<variant, trace, timeVars, hubVars, writeVars, conn, svc, spawned,
                   lockVars, getVars>>

\* (mutant) the read pump returns without calling Unregister
ReadPump_ReadError_NoUnregister(c) ==
    /\ Running
    /\ rpc[c] = "read"
    /\ rpc' = [rpc EXCEPT ![c] = "Close"]
    /\ UNCHANGED <<variant, trace, malformed, timeVars, hubVars, chanVars, rmsg,
                   writeVars, conn, svc, spawned, nextId, lockVars, getVars>>

\* ReadMessage returns an error (peer gone, read deadline, transport closed):
\* break, and the deferred function calls Unregister
ReadPump_ReadError(c) ==
    /\ Running
    /\ rpc[c] = "read"
    /\ rpc' = [rpc EXCEPT ![c] = "Unregister"]
    /\ UNCHANGED <<variant, trace, malformed, timeVars, hubVars, chanVars, rmsg, writeVars, conn, svc,
                   spawned, nextId, lockVars, getVars>>

\* (mutant) the handler registers the same Client again after its read pump
\* has returned
ReadPump_Close_Reregisters(c) ==
    /\ Running
    /\ rpc[c] = "Close"
    /\ conn' = [conn EXCEPT ![c] = FALSE]
    /\ rpc' = [rpc EXCEPT ![c] = "Register"]
    /\ UNCHANGED <<variant, trace, malformed, timeVars, hubVars, chanVars, rmsg, writeVars, svc, spawned,
                   nextId, lockVars, getVars>>

\* the deferred c.conn.Close() after Unregister has returned
ReadPump_Close(c) ==
    /\ Running
    /\ rpc[c] = "Close"
    /\ conn' = [conn EXCEPT ![c] = FALSE]
    /\ rpc' = [rpc EXCEPT ![c] = "done"]
    /\ UNCHANGED <<variant, trace, malformed, timeVars, hubVars, chanVars, rmsg, writeVars, svc, spawned,
                   nextId, lockVars, getVars>>

----------------------------------------------------------------------------
(* Client.WritePump: one iteration of its for/select loop per action *)

\* a write to the transport fails once the transport is closed, and may fail
\* while it is open (write deadline, peer reset)
WriteOutcomes(c) == IF conn[c] THEN {TRUE, FALSE} ELSE {FALSE}

\* how many events a failing iteration has taken from c.send when it returns:
\* NextWriter or the first Write fails (1); chat returns from inside the
\* coalescing loop at any point; task logs write errors, drains the n queued
\* events and returns on w.Close's error
TakenOnError(v, c, len) ==
    IF ~conn[c] THEN {1}
    ELSE IF v = "chat" THEN 1..len ELSE {1, len}

\* (mutant) the queued events are written ahead of the received one, last first
Coalesce_Reversed(q) == [i \in 1..Len(q) |-> q[Len(q) + 1 - i]]

\* the coalesced frame: w.Write(message), then for i := 0; i < n; i++ the next
\* of the n = len(c.send) queued ones, in channel order
Coalesce(q) == <<Head(q)>> \o [i \in 1..(Len(q) - 1) |-> q[i + 1]]

\* case message, ok := <-c.send with ok: the message and the queued ones are
\* written into one frame and flushed by w.Close(); on an error the pump
\* returns and its deferred function closes the transport
WritePump_Write(c) ==
    /\ Running
    /\ wpc[c] = "select"
    /\ send[c] # <<>>
    /\ \E ok \in WriteOutcomes(c) :
        IF ok
        THEN /\ wire' = [wire EXCEPT ![c] = IF trace THEN @ \o Coalesce(send[c]) ELSE @]
             /\ send' = [send EXCEPT ![c] = <<>>]
             /\ UNCHANGED <<wpc, conn>>
        ELSE /\ \E k \in TakenOnError(variant, c, Len(send[c])) :
                   send' = [send EXCEPT ![c] = SubSeq(@, k + 1, Len(@))]
             /\ wpc' = [wpc EXCEPT ![c] = "done"]
             /\ conn' = [conn EXCEPT ![c] = FALSE]
             /\ UNCHANGED wire
    /\ UNCHANGED <<variant, trace, malformed, timeVars, rooms, closed, hubPc, chanVars, readVars,
                   svc, spawned, nextId, lockVars, getVars>>

\* (mutant) the write pump sees the closed state as soon as the channel is
\* closed, whatever the buffer holds
WritePump_Closed_NoDrain(c) ==
    /\ Running
    /\ wpc[c] = "select"
    /\ closed[c]
    /\ \E ok \in WriteOutcomes(c) :
        wire' = [wire EXCEPT ![c] = IF ok /\ trace THEN Append(@, CloseFrame) ELSE @]
    /\ wpc' = [wpc EXCEPT ![c] = "done"]
    /\ conn' = [conn EXCEPT ![c] = FALSE]
    /\ UNCHANGED <<variant, trace, malformed, timeVars, hubVars, chanVars, readVars, svc, spawned, nextId,
                   lockVars, getVars>>

\* (mutant) the write pump returns without closing the transport
WritePump_Closed_KeepsConn(c) ==
    /\ Running
    /\ wpc[c] = "select"
    /\ send[c] = <<>>
    /\ closed[c]
    /\ \E ok \in WriteOutcomes(c) :
        wire' = [wire EXCEPT ![c] = IF ok /\ trace THEN Append(@, CloseFrame) ELSE @]
    /\ wpc' = [wpc EXCEPT ![c] = "done"]
    /\ UNCHANGED <<variant, trace, malformed, timeVars, hubVars, chanVars, readVars, svc, spawned, nextId,
                   conn, lockVars, getVars>>

\* case message, ok := <-c.send with !ok: the channel is closed and empty;
\* write the close frame, return, and the deferred function closes the transport
WritePump_Closed(c) ==
    /\ Running
    /\ wpc[c] = "select"
    /\ send[c] = <<>>
    /\ closed[c]
    /\ \E ok \in WriteOutcomes(c) :
        wire' = [wire EXCEPT ![c] = IF ok /\ trace THEN Append(@, CloseFrame) ELSE @]
    /\ wpc' = [wpc EXCEPT ![c] = "done"]
    /\ conn' = [conn EXCEPT ![c] = FALSE]
    /\ UNCHANGED <<variant, trace, malformed, timeVars, hubVars, chanVars, readVars, svc, spawned, nextId,
                   lockVars, getVars>>

----------------------------------------------------------------------------

Next ==
    \/ \E c \in Clients : Run_register(c)
    \/ \E c \in Clients : Run_unregister(c)
    \/ Run_broadcast
    \/ \E s \in Services, e \in ServiceEvents, t \in EventTypes(variant) :
          Service_Broadcast(s, t, e[1], e[2])
    \/ \E c \in Clients, t \in {TypeUserJoined, TypeUserLeft} : Broadcast_spawned(c, t)
    \/ \E c \in Clients, f \in Frames(variant) : ReadPump_ReadMessage(c, f)
    \/ \E c \in Clients : ReadPump_ReadError(c)
    \/ \E c \in Clients : ReadPump_Close(c)
    \/ \E c \in Clients : WritePump_Write(c)
    \/ \E c \in Clients : WritePump_Closed(c)

Spec == Init /\ [][Next]_vars

----------------------------------------------------------------------------
(* The hub step by step: the dispatcher's receive and its handler's lock,  *)
(* body and unlock are separate steps, and an HTTP handler goroutine calls *)
(* Hub.GetOnlineUsers meanwhile.                                           *)

\* sync.RWMutex: Lock waits until no goroutine holds the mutex, RLock until no
\* writer holds it
CanLock(m) == m.w = "" /\ m.r = {}
CanRLock(m) == m.w = ""

NoArg == [client |-> "", message |-> None]

\* h.rooms[roomID], the empty set if the key is absent
ClientsOf(rm, r) == IF r \in DOMAIN rm THEN rm[r] ELSE {}

\* case client := <-h.register (HandleConnection's Register returns and it
\* starts the two pumps)
Select_register(c) ==
    /\ hubPc = "select"
    /\ rpc[c] = "Register"
    /\ rpc' = [rpc EXCEPT ![c] = "read"]
    /\ wpc' = [wpc EXCEPT ![c] = "select"]
    /\ hubPc' = "registerClient"
    /\ hubArg' = [NoArg EXCEPT !.client = c]
    /\ StartPumps(c)
    /\ UNCHANGED <<variant, trace, malformed, rooms, send, closed, chanVars, rmsg, wire, conn,
                   svc, spawned, nextId, mu, hubRange, getVars>>

\* registerClient: h.mu.Lock()
registerClient_Lock ==
    /\ hubPc = "registerClient"
    /\ CanLock(mu)
    /\ mu' = [mu EXCEPT !.w = "hub"]
    /\ hubPc' = "registerClient_locked"
    /\ UNCHANGED <<variant, trace, malformed, timeVars, rooms, send, closed, chanVars, readVars, writeVars,
                   conn, svc, spawned, nextId, hubArg, hubRange, getVars>>

\* registerClient: the insertion, `go h.Broadcast(...)` in the task hub, and
\* the deferred h.mu.Unlock()
registerClient_Unlock ==
    /\ hubPc = "registerClient_locked"
    /\ rooms' = registerClient_rooms(rooms, hubArg.client)
    /\ spawned' = IF variant = "task"
                  THEN spawned \cup {<<hubArg.client, TypeUserJoined>>}
                  ELSE spawned
    /\ mu' = [mu EXCEPT !.w = ""]
    /\ hubPc' = "select"
    /\ hubArg' = NoArg
    /\ UNCHANGED <<variant, trace, malformed, timeVars, send, closed, chanVars, readVars, writeVars,
                   conn, svc, nextId, hubRange, getVars>>

\* case client := <-h.unregister (ReadPump's deferred Unregister returns)
Select_unregister(c) ==
    /\ hubPc = "select"
    /\ rpc[c] = "Unregister"
    /\ rpc' = [rpc EXCEPT ![c] = "Close"]
    /\ hubPc' = "unregisterClient"
    /\ hubArg' = [NoArg EXCEPT !.client = c]
    /\ UNCHANGED <<variant, trace, malformed, timeVars, rooms, send, closed, chanVars, rmsg, writeVars, conn,
                   svc, spawned, nextId, mu, hubRange, getVars>>

\* unregisterClient: h.mu.Lock()
unregisterClient_Lock ==
    /\ hubPc = "unregisterClient"
    /\ CanLock(mu)
    /\ mu' = [mu EXCEPT !.w = "hub"]
    /\ hubPc' = "unregisterClient_locked"
    /\ UNCHANGED <<variant, trace, malformed, timeVars, rooms, send, closed, chanVars, readVars, writeVars,
                   conn, svc, spawned, nextId, hubArg, hubRange, getVars>>

\* (mutant) unregisterClient calls h.Broadcast(...) itself, without `go`: it
\* sends on h.broadcast while it holds the lock
unregisterClient_Unlock_Sync ==
    /\ hubPc = "unregisterClient_locked"
    /\ LET c == hubArg.client IN
       IF InRoom(rooms, c) /\ ~closed[c]
       THEN /\ variant = "task" => HasRoom(broadcast)
            /\ rooms' = unregisterClient_rooms(rooms, c)
            /\ closed' = [closed EXCEPT ![c] = TRUE]
            /\ broadcast' = IF variant = "task"
                            THEN Append(broadcast, GoMessage(c, TypeUserLeft))
                            ELSE broadcast
       ELSE UNCHANGED <<rooms, closed, broadcast>>
    /\ mu' = [mu EXCEPT !.w = ""]
    /\ hubPc' = "select"
    /\ hubArg' = NoArg
    /\ UNCHANGED <<variant, trace, malformed, timeVars, send, sendq, readVars, writeVars, conn, svc,
                   spawned, nextId, hubRange, getVars>>

\* unregisterClient: the removal, close(client.send), `go h.Broadcast(...)` in
\* the task hub, and the deferred h.mu.Unlock()
unregisterClient_Unlock ==
    /\ hubPc = "unregisterClient_locked"
    /\ LET c == hubArg.client IN
       IF InRoom(rooms, c)
       THEN IF closed[c]
            THEN /\ hubPc' = "panic"
                 /\ UNCHANGED <<rooms, closed, spawned, mu, hubArg>>
            ELSE /\ rooms' = unregisterClient_rooms(rooms, c)
                 /\ closed' = [closed EXCEPT ![c] = TRUE]
                 /\ spawned' = IF variant = "task"
                               THEN spawned \cup {<<c, TypeUserLeft>>}
                               ELSE spawned
                 /\ mu' = [mu EXCEPT !.w = ""]
                 /\ hubPc' = "select"
                 /\ hubArg' = NoArg
       ELSE /\ mu' = [mu EXCEPT !.w = ""]
            /\ hubPc' = "select"
            /\ hubArg' = NoArg
            /\ UNCHANGED <<rooms, closed, spawned>>
    /\ UNCHANGED <<variant, trace, malformed, timeVars, send, chanVars, readVars, writeVars, conn, svc,
                   nextId, hubRange, getVars>>

\* case message := <-h.broadcast
Select_broadcast ==
    /\ hubPc = "select"
    /\ broadcast # <<>>
    /\ broadcast' = Recv_buffer(broadcast, sendq)
    /\ sendq' = Recv_sendq(sendq)
    /\ Recv_wake
    /\ hubPc' = "broadcastMessage"
    /\ hubArg' = [NoArg EXCEPT !.message = Head(broadcast)]
    /\ UNCHANGED <<variant, trace, malformed, timeVars, rooms, send, closed, writeVars, conn, nextId,
                   mu, hubRange, getVars>>

\* broadcastMessage: h.mu.RLock(); clients, ok := h.rooms[message.RoomID]
broadcastMessage_RLock ==
    /\ hubPc = "broadcastMessage"
    /\ CanRLock(mu)
    /\ mu' = [mu EXCEPT !.r = @ \cup {"hub"}]
    /\ hubRange' = ClientsOf(rooms, hubArg.message.room)
    /\ hubPc' = "broadcastMessage_range"
    /\ UNCHANGED <<variant, trace, malformed, timeVars, rooms, send, closed, chanVars, readVars, writeVars,
                   conn, svc, spawned, nextId, hubArg, getVars>>

\* what a delete(clients, client) can do to a goroutine that is ranging over
\* the same map without synchronisation: the runtime may stop the process
\* ("concurrent map iteration and map write"), and else the range may or may
\* not still produce the deleted key
RaceOutcomes == {"fatal", "visited", "skipped"}

\* broadcastMessage: one iteration of `for client := range clients`
broadcastMessage_range(c) ==
    /\ hubPc = "broadcastMessage_range"
    /\ c \in hubRange
    /\ hubRange' = hubRange \ {c}
    /\ LET m == hubArg.message IN
       IF Suppressed(variant, m, c)
       THEN UNCHANGED <<rooms, send, closed, hubPc, getVars>>
       ELSE IF closed[c]
       THEN /\ hubPc' = "panic"
            /\ UNCHANGED <<rooms, send, closed, getVars>>
       ELSE IF Len(send[c]) < Cap
       THEN /\ send' = [send EXCEPT ![c] = Append(@, m)]
            /\ UNCHANGED <<rooms, closed, hubPc, getVars>>
       ELSE /\ closed' = [closed EXCEPT ![c] = TRUE]
            /\ rooms' = [rooms EXCEPT ![m.room] = @ \ {c}]
            /\ UNCHANGED <<send, gpc, gRoom, gUsers>>
            /\ IF gpc = "range" /\ gRoom = m.room
               THEN \E o \in RaceOutcomes :
                       /\ hubPc' = IF o = "fatal" THEN "panic" ELSE hubPc
                       /\ gRange' = IF o = "skipped" THEN gRange \ {c} ELSE gRange
               ELSE UNCHANGED <<hubPc, gRange>>
    /\ UNCHANGED <<variant, trace, malformed, timeVars, chanVars, readVars, writeVars, conn, svc, spawned,
                   nextId, mu, hubArg>>

\* broadcastMessage: the range is over (or the room has no set); the deferred
\* h.mu.RUnlock()
broadcastMessage_RUnlock ==
    /\ hubPc = "broadcastMessage_range"
    /\ hubRange = {}
    /\ mu' = [mu EXCEPT !.r = @ \ {"hub"}]
    /\ hubPc' = "select"
    /\ hubArg' = NoArg
    /\ UNCHANGED <<variant, trace, malformed, timeVars, rooms, send, closed, chanVars, readVars, writeVars,
                   conn, svc, spawned, nextId, hubRange, getVars>>

\* GetOnlineUsers(roomID): h.mu.RLock(); clients, ok := h.rooms[roomID]
GetOnlineUsers_RLock(r) ==
    /\ Running
    /\ gpc = "idle"
    /\ CanRLock(mu)
    /\ mu' = [mu EXCEPT !.r = @ \cup {"http"}]
    /\ gpc' = "range"
    /\ gRoom' = r
    /\ gRange' = ClientsOf(rooms, r)
    /\ gUsers' = {}
    /\ UNCHANGED <<variant, trace, malformed, timeVars, hubVars, chanVars, readVars, writeVars, conn, svc,
                   spawned, nextId, hubArg, hubRange>>

\* GetOnlineUsers: one iteration of `for client := range clients`
GetOnlineUsers_range(c) ==
    /\ Running
    /\ gpc = "range"
    /\ c \in gRange
    /\ gRange' = gRange \ {c}
    /\ gUsers' = gUsers \cup {UserID(c)}
    /\ UNCHANGED <<variant, trace, malformed, timeVars, hubVars, chanVars, readVars, writeVars, conn, svc,
                   spawned, nextId, lockVars, gpc, gRoom>>

\* GetOnlineUsers: the result is built and the deferred h.mu.RUnlock() runs
GetOnlineUsers_RUnlock ==
    /\ Running
    /\ gpc = "range"
    /\ gRange = {}
    /\ mu' = [mu EXCEPT !.r = @ \ {"http"}]
    /\ gpc' = "idle"
    /\ UNCHANGED <<variant, trace, malformed, timeVars, hubVars, chanVars, readVars, writeVars, conn, svc,
                   spawned, nextId, hubArg, hubRange, gRoom, gRange, gUsers>>

NextLock ==
    \/ \E c \in Clients : Select_register(c)
    \/ registerClient_Lock
    \/ registerClient_Unlock
    \/ \E c \in Clients : Select_unregister(c)
    \/ unregisterClient_Lock
    \/ unregisterClient_Unlock
    \/ Select_broadcast
    \/ broadcastMessage_RLock
    \/ \E c \in Clients : broadcastMessage_range(c)
    \/ broadcastMessage_RUnlock
    \/ \E r \in Rooms : GetOnlineUsers_RLock(r)
    \/ \E c \in Clients : GetOnlineUsers_range(c)
    \/ GetOnlineUsers_RUnlock
    \/ \E s \in Services, e \in ServiceEvents, t \in EventTypes(variant) :
          Service_Broadcast(s, t, e[1], e[2])
    \/ \E c \in Clients, t \in {TypeUserJoined, TypeUserLeft} : Broadcast_spawned(c, t)
    \/ \E c \in Clients, f \in Frames(variant) : ReadPump_ReadMessage(c, f)
    \/ \E c \in Clients : ReadPump_ReadError(c)
    \/ \E c \in Clients : ReadPump_Close(c)
    \/ \E c \in Clients : WritePump_Write(c)
    \/ \E c \in Clients : WritePump_Closed(c)

\* both hubs with one connection
InitLock == InitHub({"chat", "task"}, {{"c1"}}) /\ trace = FALSE

SpecLock == InitLock /\ [][NextLock]_vars

\* the chat hub starts no `go h.Broadcast(...)` goroutine
NextChat ==
    \/ \E c \in Clients : Run_register(c)
    \/ \E c \in Clients : Run_unregister(c)
    \/ Run_broadcast
    \/ \E s \in Services, e \in ServiceEvents, t \in EventTypes(variant) :
          Service_Broadcast(s, t, e[1], e[2])
    \/ \E c \in Clients, f \in Frames(variant) : ReadPump_ReadMessage(c, f)
    \/ \E c \in Clients : ReadPump_ReadError(c)
    \/ \E c \in Clients : ReadPump_Close(c)
    \/ \E c \in Clients : WritePump_Write(c)
    \/ \E c \in Clients : WritePump_Closed(c)

SpecTrace == InitTrace /\ [][NextChat]_vars

\* the chat hub whose peers also send frames that do not decode
NextRaw ==
    \/ \E c \in Clients : Run_register(c)
    \/ \E c \in Clients : Run_unregister(c)
    \/ Run_broadcast
    \/ \E s \in Services, e \in ServiceEvents, t \in EventTypes(variant) :
          Service_Broadcast(s, t, e[1], e[2])
    \/ \E c \in Clients, d \in RawFrames(variant) : ReadPump_ReadMessage(c, d)
    \/ \E c \in Clients : ReadPump_ReadError(c)
    \/ \E c \in Clients : ReadPump_Close(c)
    \/ \E c \in Clients : WritePump_Write(c)
    \/ \E c \in Clients : WritePump_Closed(c)

InitRaw == InitHub({"chat"}, {{"c1", "c2"}}) /\ trace = FALSE

SpecRaw == InitRaw /\ [][NextRaw]_vars

\* the hub v some time after the connections R registered (their join events
\* delivered and written out), the connections P about to register
InitRegistered(v, R, P) ==
    /\ variant = v
    /\ rooms = [r \in {RoomID(c) : c \in R} |-> {c \in R : RoomID(c) = r}]
    /\ send = [c \in Clients |-> <<>>]
    /\ closed = [c \in Clients |-> FALSE]
    /\ broadcast = <<>>
    /\ sendq = <<>>
    /\ hubPc = "select"
    /\ rpc = [c \in Clients |->
                IF c \in R THEN "read" ELSE IF c \in P THEN "Register" ELSE "absent"]
    /\ rmsg = [c \in Clients |-> None]
    /\ wpc = [c \in Clients |-> IF c \in R THEN "select" ELSE "new"]
    /\ wire = [c \in Clients |-> <<>>]
    /\ conn = [c \in Clients |-> TRUE]
    /\ svc = [s \in Services |-> None]
    /\ spawned = {}
    /\ nextId = 1
    /\ mu = [w |-> "", r |-> {}]
    /\ hubArg = [client |-> "", message |-> None]
    /\ hubRange = {}
    /\ gpc = "idle"
    /\ gRoom = 0
    /\ gRange = {}
    /\ gUsers = {}
    /\ malformed = [c \in Clients |-> 0]
    /\ now = 0
    /\ readDeadline = [c \in Clients |-> IF c \in R THEN pongWait ELSE 0]
    /\ nextPing = [c \in Clients |-> IF c \in R THEN pingPeriod ELSE 0]

\* the task hub with c1 and c2 in project 10 and c3 joining project 20
InitEcho == InitRegistered("task", {"c1", "c2"}, {"c3"}) /\ trace = FALSE

SpecEcho == InitEcho /\ [][Next]_vars

\* the task hub step by step, c1 registered and c2 about to register
InitJoin == InitRegistered("task", {"c1"}, {"c2"}) /\ trace = FALSE

SpecJoin == InitJoin /\ [][NextLock]_vars

\* either hub with c1 and c2 registered in room 10, the events numbered and
\* the peers' input recorded; the callers issue MaxEvents events
InitOrder ==
    /\ \E v \in {"chat", "task"} : InitRegistered(v, {"c1", "c2"}, {})
    /\ trace = TRUE

NextOrder ==
    \/ \E c \in Clients : Run_unregister(c)
    \/ Run_broadcast
    \/ \E s \in Services, e \in ServiceEvents, t \in EventTypes(variant) :
          Service_Broadcast(s, t, e[1], e[2])
    \/ \E c \in Clients, t \in {TypeUserJoined, TypeUserLeft} : Broadcast_spawned(c, t)
    \/ \E c \in Clients, f \in Frames(variant) : ReadPump_ReadMessage(c, f)
    \/ \E c \in Clients : ReadPump_ReadError(c)
    \/ \E c \in Clients : ReadPump_Close(c)
    \/ \E c \in Clients : WritePump_Write(c)
    \/ \E c \in Clients : WritePump_Closed(c)

SpecOrder == InitOrder /\ [][NextOrder]_vars

\* Hub.Run keeps running, and a started `go h.Broadcast(...)` goroutine runs.
\* Nothing is assumed of the write pumps, the peers or the callers' arrival.
Fairness ==
    /\ WF_vars(Run_broadcast)
    /\ \A c \in Clients, t \in {TypeUserJoined, TypeUserLeft} :
          WF_vars(Broadcast_spawned(c, t))

\* both hubs with two connections of two users in one room
InitFair == InitHub({"chat", "task"}, {{"c1", "c2"}}) /\ trace = FALSE

FairSpec == InitFair /\ [][Next]_vars /\ Fairness

----------------------------------------------------------------------------
(* Keepalive: the read deadline, the pong handler and the ping ticker *)

\* up to when the peer answers; after it the peer is unresponsive
LastPong == MaxTime - pongWait

\* a second passes; a read whose deadline is reached and a ticker that has
\* fired are served first
Tick ==
    /\ Running
    /\ now < MaxTime
    /\ \A c \in Clients :
          /\ (rpc[c] = "read" /\ conn[c]) => now < readDeadline[c]
          /\ wpc[c] = "select" => now < nextPing[c]
    /\ now' = now + 1
    /\ UNCHANGED <<variant, trace, malformed, readDeadline, nextPing, hubVars, chanVars,
                   readVars, writeVars, conn, svc, spawned, nextId, lockVars, getVars>>

\* a pong of the peer arrives before the deadline: ReadMessage runs the pong
\* handler, c.conn.SetReadDeadline(time.Now().Add(pongWait))
ReadPump_Pong(c) ==
    /\ Running
    /\ rpc[c] = "read"
    /\ conn[c]
    /\ now < readDeadline[c]
    /\ now <= LastPong
    /\ readDeadline' = [readDeadline EXCEPT ![c] = now + pongWait]
    /\ UNCHANGED <<variant, trace, malformed, now, nextPing, hubVars, chanVars,
                   readVars, writeVars, conn, svc, spawned, nextId, lockVars, getVars>>

\* (mutant) a read that times out is started again with no deadline
ReadPump_Deadline_ReadsOn(c) ==
    /\ Running
    /\ rpc[c] = "read"
    /\ conn[c]
    /\ now >= readDeadline[c]
    /\ readDeadline' = [readDeadline EXCEPT ![c] = MaxTime + 1]
    /\ UNCHANGED <<variant, trace, malformed, now, nextPing, hubVars, chanVars,
                   readVars, writeVars, conn, svc, spawned, nextId, lockVars, getVars>>

\* the read deadline expires: ReadMessage returns a timeout error, the loop
\* breaks and the deferred function calls Unregister
ReadPump_Deadline(c) ==
    /\ Running
    /\ rpc[c] = "read"
    /\ conn[c]
    /\ now >= readDeadline[c]
    /\ rpc' = [rpc EXCEPT ![c] = "Unregister"]
    /\ UNCHANGED <<variant, trace, malformed, timeVars, hubVars, chanVars, rmsg,
                   writeVars, conn, svc, spawned, nextId, lockVars, getVars>>

\* case <-ticker.C: the ping is written, or the write fails and the pump
\* returns, its deferred function closing the transport
WritePump_Ping(c) ==
    /\ Running
    /\ wpc[c] = "select"
    /\ now >= nextPing[c]
    /\ \E ok \in WriteOutcomes(c) :
        IF ok
        THEN /\ nextPing' = [nextPing EXCEPT ![c] = @ + pingPeriod]
             /\ UNCHANGED <<wpc, conn>>
        ELSE /\ wpc' = [wpc EXCEPT ![c] = "done"]
             /\ conn' = [conn EXCEPT ![c] = FALSE]
             /\ UNCHANGED nextPing
    /\ UNCHANGED <<variant, trace, malformed, now, readDeadline, hubVars, chanVars,
                   readVars, wire, svc, spawned, nextId, lockVars, getVars>>

\* the chat hub with the clock running: the peer of a registered connection
\* answers pings or not
NextTimed ==
    \/ Tick
    \/ \E c \in Clients : ReadPump_Pong(c)
    \/ \E c \in Clients : ReadPump_Deadline(c)
    \/ \E c \in Clients : WritePump_Ping(c)
    \/ \E c \in Clients : Run_unregister(c)
    \/ \E c \in Clients : ReadPump_ReadError(c)
    \/ \E c \in Clients : ReadPump_Close(c)
    \/ \E c \in Clients : WritePump_Closed(c)

InitTimed == InitRegistered("chat", {"c1"}, {}) /\ trace = FALSE

\* a pending ReadMessage on a closed transport returns an error
ReadPump_ReadClosed(c) == ~conn[c] /\ ReadPump_ReadError(c)

\* Hub.Run keeps running, the two pump goroutines of a connection run, and a
\* read on a closed transport fails.  Nothing is assumed of the peers, of the
\* callers' arrival or of a read on an open transport.
PumpFairness ==
    /\ WF_vars(Run_broadcast)
    /\ \A c \in Clients :
          /\ WF_vars(Run_unregister(c))
          /\ WF_vars(ReadPump_ReadClosed(c))
          /\ WF_vars(ReadPump_Close(c))
          /\ WF_vars(WritePump_Write(c))
          /\ WF_vars(WritePump_Closed(c))

FairPumps == InitFair /\ [][Next]_vars /\ PumpFairness

\* time passes, Hub.Run keeps running, the two pump goroutines run, and a read
\* on a closed transport fails.  Nothing is assumed of the peer.
TimedFairness ==
    /\ WF_vars(Tick)
    /\ \A c \in Clients :
          /\ WF_vars(Run_unregister(c))
          /\ WF_vars(ReadPump_Deadline(c))
          /\ WF_vars(ReadPump_ReadClosed(c))
          /\ WF_vars(ReadPump_Close(c))
          /\ WF_vars(WritePump_Ping(c))
          /\ WF_vars(WritePump_Closed(c))

FairTimed == InitTimed /\ [][NextTimed]_vars /\ TimedFairness

\* Hub.Run keeps running: an Unregister request is received.  Nothing else
\* is assumed.
RunFairness == \A c \in Clients : WF_vars(Run_unregister(c))

FairRun == InitFair /\ [][Next]_vars /\ RunFairness

TypeOK ==
    /\ variant \in {"chat", "task"}
    /\ DOMAIN rooms \subseteq Rooms
    /\ \A r \in DOMAIN rooms : rooms[r] \subseteq Clients
    /\ \A c \in Clients : Len(send[c]) <= Cap
    /\ Len(broadcast) <= BroadcastCap
    /\ hubPc \in {"select", "panic", "registerClient", "registerClient_locked",
                 "unregisterClient", "unregisterClient_locked",
                 "broadcastMessage", "broadcastMessage_range"}
    /\ mu.w \in {"", "hub"}
    /\ mu.r \subseteq {"hub", "http"}
    /\ mu.w = "" \/ mu.r = {}

----------------------------------------------------------------------------
(* Vocabulary of the properties, in terms of the state alone *)

\* c is in some room's set of the map
Member(rm, c) == \E r \in DOMAIN rm : c \in rm[r]

\* c is in the set of room r
MemberOf(rm, c, r) == r \in DOMAIN rm /\ c \in rm[r]

\* this step is the dispatcher taking a request off Hub.broadcast
BroadcastStep == Len(broadcast') < Len(broadcast) \/ Len(sendq') < Len(sendq)

\* this step is the dispatcher taking c's request off Hub.unregister
UnregisterStep(c) == rpc[c] = "Unregister" /\ rpc'[c] = "Close"

\* c's queue has no free slot
Full(c) == Len(send[c]) >= Cap

\* number of occurrences of m in the queue q
Count(q, m) == Cardinality({i \in 1..Len(q) : q[i] = m})

----------------------------------------------------------------------------
(* C1 -- Room isolation: every event in a connection's outbound queue, and *)
(* every event its write pump has put on the wire, carries the             *)
(* connection's own room id, in both hubs.                                 *)
C1_RoomIsolation ==
    \A c \in Clients :
        /\ \A i \in 1..Len(send[c]) : send[c][i].room = RoomID(c)
        /\ \A i \in 1..Len(wire[c]) :
              wire[c][i] # CloseFrame => wire[c][i].room = RoomID(c)

\* both rooms are populated and each of the two connections holds an event
C1_Witness ==
    /\ MemberOf(rooms, "c1", 10) /\ MemberOf(rooms, "c3", 20)
    /\ send["c1"] # <<>> /\ send["c3"] # <<>>

(* C4 -- No double delivery: when the dispatcher processes a broadcast     *)
(* request m, every connection in the set of m's room that is not          *)
(* echo-suppressed for m and has queue space has m appended to its queue   *)
(* exactly once, and no other queue grows.                                 *)
C4_NoDoubleDelivery ==
    [][BroadcastStep =>
        LET m == Head(broadcast) IN
        \A c \in Clients :
            IF MemberOf(rooms, c, m.room) /\ ~Suppressed(variant, m, c) /\ ~Full(c)
            THEN send'[c] = Append(send[c], m)
            ELSE send'[c] = send[c]]_vars

\* the two connections of room 10 hold the same single event
C4_Witness ==
    /\ MemberOf(rooms, "c1", 10) /\ MemberOf(rooms, "c2", 10)
    /\ Len(send["c1"]) = 1 /\ send["c2"] = send["c1"]

(* C6 -- Membership invariant: a connection is in no set but that of its   *)
(* own room, and it is in that set exactly when its Register request has   *)
(* been processed and it has not since been unregistered (its queue        *)
(* closed by Unregister or by the slow-consumer drop).                     *)
C6_Membership ==
    /\ \A r \in DOMAIN rooms : \A c \in rooms[r] : RoomID(c) = r
    /\ \A c \in Clients :
          Member(rooms, c) <=> (rpc[c] \notin {"absent", "Register"} /\ ~closed[c])

\* one connection is registered while another has been unregistered
C6_Witness ==
    \E c, d \in Clients :
        /\ c # d
        /\ MemberOf(rooms, c, RoomID(c))
        /\ rpc[d] = "Close" /\ closed[d] /\ ~Member(rooms, d)

(* C7 -- Non-empty rooms: every key of the room map has a non-empty set.   *)
C7_NonEmptyRooms == \A r \in DOMAIN rooms : rooms[r] # {}

\* the only connection of room 20 has been dropped by a broadcast
C7_Reached == 20 \in DOMAIN rooms /\ rooms[20] = {} /\ closed["c3"]

(* C2 -- Slow-consumer isolation, as claimed: when the dispatcher          *)
(* processes a broadcast to a room in which X's queue is full, every other *)
(* connection of the room with queue space gets the event, X is in no set  *)
(* afterwards, and X's user is online afterwards only through another      *)
(* connection.                                                             *)
C2_SlowConsumerAsClaimed ==
    [][BroadcastStep =>
        LET m == Head(broadcast) IN
        \A X \in Clients :
            (MemberOf(rooms, X, m.room) /\ Full(X)) =>
                /\ \A c \in rooms[m.room] \ {X} :
                      ~Full(c) => send'[c] = Append(send[c], m)
                /\ ~Member(rooms', X)
                /\ UserID(X) \in GetOnlineUsers(rooms', m.room) =>
                      \E d \in rooms'[m.room] : d # X /\ UserID(d) = UserID(X)]_vars

(* C2 (amended) -- the same for the connections the event is offered to:   *)
(* if X's queue is full and X is not echo-suppressed for the event, every  *)
(* other connection of the room that is not echo-suppressed and has queue  *)
(* space gets the event, X is in no set afterwards, and X's user is online *)
(* afterwards only through another connection.                             *)
C2_SlowConsumerIsolation ==
    [][BroadcastStep =>
        LET m == Head(broadcast) IN
        \A X \in Clients :
            (MemberOf(rooms, X, m.room) /\ Full(X) /\ ~Suppressed(variant, m, X)) =>
                /\ \A c \in rooms[m.room] \ {X} :
                      (~Full(c) /\ ~Suppressed(variant, m, c)) =>
                          send'[c] = Append(send[c], m)
                /\ ~Member(rooms', X)
                /\ UserID(X) \in GetOnlineUsers(rooms', m.room) =>
                      \E d \in rooms'[m.room] : d # X /\ UserID(d) = UserID(X)]_vars

\* c1 was dropped with a full queue (its read pump has not unregistered it)
\* while c2 stays in room 10 and holds an event
C2_Witness ==
    /\ closed["c1"] /\ rpc["c1"] = "read" /\ ~Member(rooms, "c1")
    /\ Len(send["c1"]) = Cap
    /\ MemberOf(rooms, "c2", 10) /\ send["c2"] # <<>>

(* C8 -- Idempotent unregister: when the dispatcher processes Unregister   *)
(* for a connection that is in no set, the room map, every queue and its   *)
(* open/closed status, and the events emitted by the hub stay as they are  *)
(* and the dispatcher goes on; and on every room map the program reaches,  *)
(* unregistering a connection twice gives the map that unregistering it    *)
(* once gives.                                                             *)
C8_IdempotentUnregister ==
    [][/\ \A c \in Clients :
            (UnregisterStep(c) /\ ~Member(rooms, c)) =>
                /\ rooms' = rooms
                /\ send' = send
                /\ closed' = closed
                /\ spawned' = spawned
                /\ broadcast' = broadcast
                /\ hubPc' = hubPc
       /\ \A c \in Clients :
            unregisterClient_rooms(unregisterClient_rooms(rooms', c), c)
                = unregisterClient_rooms(rooms', c)]_vars

\* c3 was dropped as a slow consumer (the set of room 20 is left empty) and
\* its read pump's Unregister has then been processed
C8_Witness == 20 \in DOMAIN rooms /\ rooms[20] = {} /\ rpc["c3"] = "Close"

(* C9 -- Room cleanup: when the dispatcher processes Unregister for the    *)
(* last connection of a room's set, the room's key is gone from the map    *)
(* after that step and GetOnlineUsers of the room is empty.                *)
C9_RoomCleanup ==
    [][\A c \in Clients :
          (UnregisterStep(c) /\ MemberOf(rooms, c, RoomID(c)) /\ rooms[RoomID(c)] = {c}) =>
              /\ RoomID(c) \notin DOMAIN rooms'
              /\ GetOnlineUsers(rooms', RoomID(c)) = {}]_vars

\* c3, alone in room 20, has been unregistered by its read pump
C9_Witness == rpc["c3"] = "Close" /\ closed["c3"] /\ 20 \notin DOMAIN rooms

(* C5 -- FIFO per recipient: of two events of one caller, the second       *)
(* issued after the Broadcast of the first returned, a connection that     *)
(* receives both has the first ahead of the second: in what its write pump *)
(* has put on the wire (coalesced frames included) followed by what is     *)
(* still in its outbound queue, events of one caller are in the order the  *)
(* caller issued them.                                                     *)
C5_FIFO ==
    \A c \in Clients :
        LET q == wire[c] \o send[c] IN
        \A i, j \in 1..Len(q) :
            (i < j /\ q[i].from = q[j].from /\ q[i].from \in Services \cup Clients)
                => q[i].id < q[j].id

\* c1's write pump has written two events of one caller while c2, still
\* registered, holds the same two in its queue
C5_Witness ==
    /\ Len(wire["c1"]) = 2 /\ wire["c1"][1].from = wire["c1"][2].from
    /\ wire["c1"][1].id = 1 /\ wire["c1"][2].id = 2
    /\ MemberOf(rooms, "c2", 10) /\ send["c2"] = wire["c1"]

(* C3 -- Broadcast never waits for a consumer: while the dispatcher runs,  *)
(* every call of Hub.Broadcast returns: whenever callers (service          *)
(* goroutines, read pumps, join/leave goroutines) are parked in            *)
(* Hub.Broadcast on the full request channel, a moment follows at which    *)
(* none of them is, with no assumption that any write pump ever takes an   *)
(* event from its queue.                                                   *)
C3_BroadcastReturns == (sendq # <<>>) ~> (sendq = <<>> \/ ~Running)

\* a caller is blocked in Hub.Broadcast on the full request channel while the
\* request at its head is for a connection whose queue is full and whose write
\* pump has written nothing
C3_Witness ==
    /\ Parked(sendq, Service("s1"))
    /\ Len(broadcast) = BroadcastCap
    /\ \E c \in Offered(variant, rooms, Head(broadcast)) :
          Full(c) /\ wpc[c] = "select" /\ conn[c]

(* C10 -- Exclusive mutation: every step that changes the room map is      *)
(* taken with the write lock held, and no step deletes from or inserts     *)
(* into a room's set while the goroutine in GetOnlineUsers is ranging over *)
(* that set under the read lock.                                           *)
C10_ExclusiveMutation ==
    [][/\ rooms' # rooms => mu.w # ""
       /\ \A r \in Rooms :
             (gpc = "range" /\ gRoom = r) =>
                 ClientsOf(rooms', r) = ClientsOf(rooms, r)]_vars

\* GetOnlineUsers holds the read lock and has still to visit a connection that
\* broadcastMessage, holding the read lock too, has deleted from the set
C10_Reached ==
    /\ gpc = "range" /\ "http" \in mu.r /\ "hub" \in mu.r
    /\ \E c \in gRange : ~Member(rooms, c) /\ closed[c]

\* c1, c2 and c3 are registered and the dispatcher takes a TASK_CREATED event
\* of project 10 and user 1 off the request channel, c1 and c2 having space
EchoStep ==
    /\ BroadcastStep
    /\ Head(broadcast).type = TypeTaskCreated
    /\ Head(broadcast).room = 10 /\ Head(broadcast).user = 1
    /\ MemberOf(rooms, "c1", 10) /\ MemberOf(rooms, "c2", 10) /\ MemberOf(rooms, "c3", 20)
    /\ ~Full("c1") /\ ~Full("c2")

(* C11 -- Task events echo to the sender, as claimed: in the task hub with *)
(* c1 (user 1, project 10), c2 (user 2, project 10) and c3 (user 3,        *)
(* project 20) registered, a TASK_CREATED event of project 10 and user 1   *)
(* is enqueued onto c2 and onto c1, and nothing onto c3.                   *)
C11_EchoToSender ==
    [][EchoStep =>
        /\ send'["c2"] = Append(send["c2"], Head(broadcast))
        /\ send'["c1"] = Append(send["c1"], Head(broadcast))
        /\ send'["c3"] = send["c3"]]_vars

(* C11 (amended) -- the event is enqueued onto c2 only: c1, a connection   *)
(* of the event's own user, gets nothing, and c3 gets nothing.             *)
C11_NoEchoToSender ==
    [][EchoStep =>
        /\ send'["c2"] = Append(send["c2"], Head(broadcast))
        /\ send'["c1"] = send["c1"]
        /\ send'["c3"] = send["c3"]]_vars

\* the three are registered, c2 holds the TASK_CREATED event of user 1 and
\* c1's queue is empty
C11_Witness ==
    /\ MemberOf(rooms, "c1", 10) /\ MemberOf(rooms, "c2", 10) /\ MemberOf(rooms, "c3", 20)
    /\ Len(send["c2"]) = 1
    /\ send["c2"][1].type = TypeTaskCreated /\ send["c2"][1].user = 1
    /\ send["c1"] = <<>>

(* C12 -- Echo suppression in the chat hub applies to TYPING only: when    *)
(* the dispatcher processes an event, a connection of the event's room is  *)
(* passed over (its queue, its open/closed status and its membership stay  *)
(* as they are) exactly when the event is a TYPING event of the            *)
(* connection's own user; for any other event every connection of the      *)
(* room, the sender's included, is offered it.                             *)
C12_TypingOnly ==
    [][(BroadcastStep /\ variant = "chat") =>
        LET m == Head(broadcast) IN
        \A c \in ClientsOf(rooms, m.room) :
            (/\ send'[c] = send[c]
             /\ closed'[c] = closed[c]
             /\ MemberOf(rooms', c, m.room))
            <=> (m.type = MessageTypeTyping /\ UserID(c) = m.user)]_vars

\* in the chat hub c1 holds its own user's NEW_MESSAGE (an echo) and is still
\* registered with that full queue after a TYPING event of its user reached c2
C12_Witness ==
    /\ variant = "chat"
    /\ MemberOf(rooms, "c1", 10) /\ MemberOf(rooms, "c2", 10)
    /\ Len(send["c1"]) = 1 /\ Len(send["c2"]) = 1
    /\ send["c1"][1].type = MessageTypeNewMessage /\ send["c1"][1].user = 1
    /\ send["c2"][1].type = MessageTypeTyping /\ send["c2"][1].user = 1

(* C13 -- GetOnlineUsers(room) returns exactly the distinct user ids that  *)
(* have a connection in the room's set (none for an absent room) when the  *)
(* call returns, and no step of the call changes the room map, a queue or  *)
(* a queue's open/closed status.                                           *)
C13_GetOnlineUsers ==
    [][/\ (gpc = "range" /\ gpc' = "idle") =>
              gUsers' = GetOnlineUsers(rooms', gRoom)
       /\ (gpc' # gpc \/ gUsers' # gUsers) =>
              (rooms' = rooms /\ send' = send /\ closed' = closed)]_vars

(* C14 -- Broadcasting to an absent room is a silent no-op: when the       *)
(* dispatcher processes an event whose room id is no key of the room map,  *)
(* the map (no key is created), every queue and every queue's open/closed  *)
(* status stay as they are and the dispatcher goes on.                     *)
C14_AbsentRoomNoOp ==
    [][(BroadcastStep /\ Head(broadcast).room \notin DOMAIN rooms) =>
        /\ rooms' = rooms
        /\ send' = send
        /\ closed' = closed
        /\ hubPc' = hubPc]_vars

\* the dispatcher is about to process an event for room 20, which has no
\* key, while room 10 has a connection holding an event
C14_Witness ==
    /\ hubPc = "select"
    /\ broadcast # <<>> /\ Head(broadcast).room = 20
    /\ 20 \notin DOMAIN rooms
    /\ MemberOf(rooms, "c1", 10) /\ send["c1"] # <<>>

(* C15 -- Sole removal trigger, as claimed: every step that removes a      *)
(* connection from its room's set is the processing of the Unregister      *)
(* request its own read pump issued on its way out.                        *)
C15_SoleRemovalTrigger ==
    [][\A c \in Clients :
          (Member(rooms, c) /\ ~Member(rooms', c)) => UnregisterStep(c)]_vars

(* C15 (amended) -- every step that removes a connection from its room's   *)
(* set is either the processing of the Unregister request its own read     *)
(* pump issued on its way out, or the processing of a broadcast that is    *)
(* offered to the connection while its outbound queue is full.             *)
C15_RemovalTriggers ==
    [][\A c \in Clients :
          (Member(rooms, c) /\ ~Member(rooms', c)) =>
              \/ UnregisterStep(c)
              \/ /\ BroadcastStep
                 /\ MemberOf(rooms, c, Head(broadcast).room)
                 /\ ~Suppressed(variant, Head(broadcast), c)
                 /\ Full(c)]_vars

\* one connection has been removed by its read pump's Unregister and another
\* by a broadcast, its read pump still reading
C15_Witness ==
    \E c, d \in Clients :
        /\ c # d
        /\ rpc[c] = "Close" /\ closed[c] /\ ~Member(rooms, c) /\ send[c] = <<>>
        /\ rpc[d] = "read" /\ closed[d] /\ ~Member(rooms, d) /\ Full(d)

\* the events in the hub's request channel, parked on it, in the outbound
\* queues and on the wire
InFlight ==
    {broadcast[i] : i \in 1..Len(broadcast)}
    \cup {sendq[i].message : i \in 1..Len(sendq)}
    \cup UNION {{send[c][i] : i \in 1..Len(send[c])} : c \in Clients}
    \cup UNION {{wire[c][i] : i \in 1..Len(wire[c])} : c \in Clients}

Requests == broadcast \o [i \in 1..Len(sendq) |-> sendq[i].message]

\* this step adds one request, made by a caller in W, to the hub's
RequestStep(W) ==
    /\ Len(Requests') = Len(Requests) + 1
    /\ SubSeq(Requests', 1, Len(Requests)) = Requests
    /\ Requests'[Len(Requests')].from \in W

\* this step is a read pump taking a frame from its peer: an event is
\* created, and not by the service layer
FrameStep == nextId' = nextId + 1 /\ ~RequestStep(Services)

\* this step adds one request of a reading connection, for its own room
ForwardStep ==
    \E c \in Clients :
        /\ rpc[c] = "read" /\ conn[c]
        /\ RequestStep({c})
        /\ Requests'[Len(Requests')].room = RoomID(c)

(* C17 -- Client messages are forwarded, as claimed: in the chat hub and   *)
(* in the task hub, every frame a read pump receives results in one        *)
(* Broadcast request to the hub for the connection's own room.             *)
C17_ClientMessagesForwarded == [][FrameStep => ForwardStep]_vars

(* C17 (amended) -- in the chat hub every frame a read pump receives       *)
(* results in one Broadcast request for the connection's own room; in the  *)
(* task hub the frame is dropped: no request is made and the hub's state   *)
(* stays as it is.                                                         *)
C17_ChatForwardsTaskDrops ==
    [][FrameStep =>
        IF variant = "chat"
        THEN ForwardStep
        ELSE /\ Requests' = Requests
             /\ rooms' = rooms /\ send' = send /\ closed' = closed]_vars

\* in the chat hub the request c2's read pump made of a frame is at the head
\* of the hub's request channel
C17_Witness ==
    /\ variant = "chat"
    /\ broadcast # <<>> /\ Head(broadcast).from = "c2" /\ Head(broadcast).room = 10
    /\ rpc["c2"] = "read"

\* registerClient completes: the connection is in its room, the lock is free
\* and the dispatcher is back at its select
registerClient_Completes ==
    /\ registerClient_Unlock
    /\ InRoom(rooms', hubArg.client)
    /\ mu'.w = "" /\ hubPc' = "select"

\* unregisterClient completes: the connection is out of its room, the lock is
\* free and the dispatcher is back at its select
unregisterClient_Completes ==
    /\ unregisterClient_Unlock
    /\ ~InRoom(rooms', hubArg.client)
    /\ mu'.w = "" /\ hubPc' = "select"

(* C18 -- Join/leave notifications never block the dispatcher: in the task *)
(* hub, whenever the dispatcher is inside registerClient or                *)
(* unregisterClient holding the lock, the handler can complete (adding or  *)
(* removing the connection and releasing the lock), also when the hub's    *)
(* broadcast input queue is full.                                          *)
C18_NotifyNeverBlocks ==
    variant = "task" =>
        /\ hubPc = "registerClient_locked" => ENABLED registerClient_Completes
        /\ hubPc = "unregisterClient_locked" => ENABLED unregisterClient_Completes

\* c2 is registered, the lock free and the dispatcher at its select, while
\* c2's USER_JOINED goroutine is parked on the full broadcast channel
C18_Witness ==
    /\ variant = "task"
    /\ hubPc = "select" /\ mu.w = ""
    /\ InRoom(rooms, "c2")
    /\ Len(broadcast) = BroadcastCap
    /\ Parked(sendq, Spawned("c2", TypeUserJoined))

\* the room ids that have at least one registered connection
ActiveRooms == {r \in Rooms : \E c \in Clients : MemberOf(rooms, c, r)}

(* C19 -- GetRoomCount returns the number of active rooms: in every        *)
(* reachable state of the chat hub its result equals the number of room    *)
(* ids that have at least one registered connection.                       *)
C19_GetRoomCount ==
    variant = "chat" => GetRoomCount(rooms) = Cardinality(ActiveRooms)

\* the chat hub counts a room although no connection is registered
C19_Reached ==
    variant = "chat" /\ GetRoomCount(rooms) = 1 /\ ActiveRooms = {}

\* c's read pump has left its loop, or has returned
ReadExiting(c) == rpc[c] \in {"Unregister", "Close", "done"}

\* both pumps of c have returned
BothExited(c) == rpc[c] = "done" /\ wpc[c] = "done"

(* C20 -- Pumps terminate together: for every connection, once its read    *)
(* pump has left its loop, its write pump has returned or its queue has    *)
(* been closed (by Unregister or by a slow-consumer drop), both pumps      *)
(* eventually have returned, as long as the dispatcher keeps running.      *)
C20_PumpsTerminateTogether ==
    \A c \in {"c1", "c2"} :
        (ReadExiting(c) \/ wpc[c] = "done" \/ closed[c])
            ~> (BothExited(c) \/ ~Running)

\* c1's queue has been closed and both its pumps have returned, the transport
\* closed, while c2's pumps still run
C20_Witness ==
    /\ BothExited("c1") /\ closed["c1"] /\ ~conn["c1"]
    /\ rpc["c2"] = "read" /\ wpc["c2"] = "select" /\ ~closed["c2"]

\* c's write pump returns in this step having taken nothing from the queue:
\* it has received !ok
ObservesClosed(c) ==
    wpc[c] = "select" /\ wpc'[c] = "done" /\ send'[c] = send[c]

\* q2 is what is left of q after its first k events were taken
TakenFrom(q, q2, k) == k \in 1..Len(q) /\ q2 = SubSeq(q, k + 1, Len(q))

(* C21 -- Drain on close: after a connection's outbound queue has been     *)
(* closed, its write pump observes the closed state only when no buffered  *)
(* event remains; until then each of its steps takes the events at the     *)
(* head of the queue, and what it puts on the wire is those events in      *)
(* queue order; the close frame is sent only with the queue closed and     *)
(* empty, and the pump has returned with it.                               *)
C21_DrainOnClose ==
    [][\A c \in Clients :
        /\ (closed[c] /\ ObservesClosed(c)) => send[c] = <<>>
        /\ (closed[c] /\ send'[c] # send[c]) =>
              \E k \in 1..Len(send[c]) :
                 /\ TakenFrom(send[c], send'[c], k)
                 /\ wire'[c] \in {wire[c], wire[c] \o SubSeq(send[c], 1, k)}
        /\ (wire'[c] # wire[c] /\ wire'[c][Len(wire'[c])] = CloseFrame) =>
              /\ closed[c] /\ send[c] = <<>>
              /\ wpc'[c] = "done"]_vars

\* c1's write pump has put two events on the wire in order and, the queue
\* closed and empty, the close frame after them, and has returned
C21_Witness ==
    /\ closed["c1"] /\ send["c1"] = <<>> /\ wpc["c1"] = "done"
    /\ Len(wire["c1"]) = 3
    /\ wire["c1"][1].id < wire["c1"][2].id
    /\ wire["c1"][3] = CloseFrame

\* q2 is q or what is left of q after events were taken from its head
SuffixOf(q2, q) == \E k \in 0..Len(q) : q2 = SubSeq(q, k + 1, Len(q))

(* C22 -- CLOSED is terminal: a connection whose outbound queue is closed  *)
(* is in no room's set, and from then on its queue stays closed, it is in  *)
(* no room's set after any step, and no step enqueues an event onto its    *)
(* queue (the queue only loses events from its head).                      *)
C22_ClosedIsTerminal ==
    [][\A c \in Clients :
        /\ closed'[c] => ~Member(rooms', c)
        /\ closed[c] => /\ closed'[c]
                        /\ SuffixOf(send'[c], send[c])]_vars

\* c1 has been removed and its pumps have returned; a later event of room 10
\* is in c2's queue and not in c1's
C22_Witness ==
    /\ closed["c1"] /\ ~Member(rooms, "c1") /\ rpc["c1"] = "done" /\ wpc["c1"] = "done"
    /\ send["c1"] = <<>>
    /\ Member(rooms, "c2") /\ send["c2"] # <<>>

(* C23 -- A malformed client frame is discarded by the chat read pump: the *)
(* step in which a read pump gets a frame that fails to decode adds no     *)
(* Broadcast request, issues no Unregister, leaves the registry and the    *)
(* queues as they are, and the read pump is at its read again, the         *)
(* transport open.                                                         *)
C23_MalformedDiscarded ==
    [][\A c \in Clients :
        malformed'[c] # malformed[c] =>
            /\ Requests' = Requests
            /\ rpc'[c] = "read" /\ conn'[c]
            /\ rooms' = rooms
            /\ send' = send /\ closed' = closed]_vars

\* c1's read pump has discarded a malformed frame and has then forwarded the
\* next frame, c1 still registered
C23_Witness ==
    /\ malformed["c1"] = 1 /\ Member(rooms, "c1") /\ ~closed["c1"]
    /\ broadcast # <<>> /\ Head(broadcast).from = "c1"
    /\ nextId = 2

\* the steps of the keepalive of c: a ping is written when the ticker fires,
\* pingPeriod after the one before; time does not pass a ticker that has
\* fired or a read deadline that is reached; a pong sets the read deadline
\* pongWait from now; the read fails only at or after its deadline
KeepaliveStep(c) ==
    /\ (wpc[c] = "select" /\ nextPing'[c] # nextPing[c]) =>
          now = nextPing[c] /\ nextPing'[c] = nextPing[c] + pingPeriod
    /\ (now' # now /\ wpc[c] = "select") => now < nextPing[c]
    /\ (now' # now /\ rpc[c] = "read" /\ conn[c]) => now < readDeadline[c]
    /\ (rpc[c] = "read" /\ readDeadline'[c] # readDeadline[c]) =>
          readDeadline'[c] = now + pongWait /\ now < readDeadline[c]

(* C24 -- Keepalive: the write pump sends a ping every pingPeriod (54 s,   *)
(* less than pongWait = 60 s), each pong sets the read deadline pongWait   *)
(* from its arrival, and a connection whose peer stops answering is        *)
(* eventually removed from the registry and its transport closed: the read *)
(* fails at the deadline, the read pump issues Unregister and closes the   *)
(* transport.                                                              *)
C24_Keepalive ==
    /\ [](pingPeriod = 54 /\ pongWait = 60)
    /\ [][\A c \in Clients : KeepaliveStep(c)]_vars
    /\ Member(rooms, "c1") ~> (~Member(rooms, "c1") /\ ~conn["c1"])

\* c1's peer was pinged and answered, so that the deadline was pushed, and
\* then did not answer: the deadline has passed, c1 is removed and its pumps
\* have returned
C24_Witness ==
    /\ readDeadline["c1"] > pongWait /\ now >= readDeadline["c1"]
    /\ nextPing["c1"] > pingPeriod
    /\ ~Member(rooms, "c1") /\ rpc["c1"] = "done" /\ wpc["c1"] = "done"

\* c's Register has been processed
Registered(c) == rpc[c] \notin {"absent", "Register"}

(* C25 -- No channel misuse: every connection whose Register has been      *)
(* processed is in its room's set exactly when its outbound queue is open, *)
(* and the dispatcher has not panicked: it has neither sent on a closed    *)
(* queue nor closed a queue twice.                                         *)
C25_NoChannelMisuse ==
    /\ hubPc # "panic"
    /\ \A c \in Clients : Registered(c) => (Member(rooms, c) <=> ~closed[c])

\* c3, alone in room 20, was dropped as a slow consumer (the emptied set is
\* still in the map) and the Unregister of its read pump has been processed
\* after that
C25_Witness ==
    /\ 20 \in DOMAIN rooms /\ rooms[20] = {}
    /\ closed["c3"] /\ rpc["c3"] = "done"
    /\ hubPc = "select"

(* C26 -- No leaked membership: the dispatcher processes a connection's    *)
(* Unregister only after its Register (the connection is then in its set,  *)
(* or a slow-consumer drop has closed its queue), and every connection     *)
(* whose read pump has left its loop is eventually absent from the         *)
(* registry and stays absent, while the dispatcher keeps running.          *)
C26_NoLeakedMembership ==
    /\ [][\A c \in Clients :
            (rpc[c] = "Unregister" /\ rpc'[c] = "Close") =>
                /\ Member(rooms, c) \/ closed[c]
                /\ ~Member(rooms', c)]_vars
    /\ \A c \in {"c1", "c2"} :
          ReadExiting(c) ~> [](~Member(rooms, c) \/ ~Running)

\* c1's read pump has returned and c1 is out of the registry, c2 still in
C26_Witness ==
    /\ rpc["c1"] = "done" /\ ~Member(rooms, "c1")
    /\ Member(rooms, "c2") /\ rpc["c2"] = "read"

\* Register has returned to c's upgrade handler and nothing has removed c
\* since: its read pump has not had its Unregister taken, its queue is open
Returned(c) == rpc[c] \in {"read", "Broadcast", "Unregister"} /\ ~closed[c]

\* a GetOnlineUsers call starts in this step: it takes the read lock and
\* looks the room up
GetOnlineUsersStarts == gpc = "idle" /\ gpc' = "range"

(* C27 -- Registration is visible on return: a GetOnlineUsers(room) call   *)
(* that starts after Hub.Register(conn) has returned to the upgrade        *)
(* handler, conn being in that room, finds conn in the room's set and so   *)
(* includes conn's user id.                                                *)
C27_VisibleOnReturn ==
    [][GetOnlineUsersStarts =>
        \A c \in Clients :
            (Returned(c) /\ RoomID(c) = gRoom') =>
                UserID(c) \in {UserID(x) : x \in gRange'}]_vars

\* Register has returned for c1, the dispatcher has not yet entered
\* registerClient's critical section, and a GetOnlineUsers(10) call holds the
\* read lock over a room without c1
C27_Reached ==
    /\ rpc["c1"] = "read" /\ hubPc = "registerClient" /\ hubArg.client = "c1"
    /\ gpc = "range" /\ gRoom = 10 /\ gRange = {} /\ gUsers = {}
    /\ "http" \in mu.r

\* the events c has received, in order: what its write pump has written
\* followed by what is in its queue
Received(c) == wire[c] \o send[c]

(* C28 -- Consistent order across recipients: for any two connections and  *)
(* any two events that were both enqueued onto both of them, the two       *)
(* events are in the same relative order in what the two connections have  *)
(* received.                                                               *)
C28_ConsistentOrder ==
    \A c, d \in Clients :
        LET qc == Received(c)
            qd == Received(d)
        IN \A i, j \in 1..Len(qc), k, l \in 1..Len(qd) :
              (i < j /\ qc[i] # qc[j] /\ qc[i] = qd[k] /\ qc[j] = qd[l]) => k < l

\* in the task hub c1 and c2 both hold the same two events of user 3
C28_Witness ==
    /\ variant = "task"
    /\ Len(Received("c1")) = 2 /\ Received("c1")[1] # Received("c1")[2]
    /\ Received("c2") = Received("c1")
    /\ Len(send["c2"]) = 2

\* this step starts the one `go h.Broadcast(USER_LEFT)` goroutine of c
UserLeftSubmitted(c) ==
    /\ <<c, TypeUserLeft>> \notin spawned
    /\ <<c, TypeUserLeft>> \in spawned'
    /\ GoMessage(c, TypeUserLeft).room = RoomID(c)
    /\ GoMessage(c, TypeUserLeft).user = UserID(c)

(* C29 -- USER_LEFT on every removal: in the task hub, every step that     *)
(* removes a registered connection from its project's set, by the read     *)
(* pump's Unregister or by the slow-consumer drop inside broadcast,        *)
(* submits one USER_LEFT event of that connection's user for that project. *)
C29_UserLeftOnRemoval ==
    [][variant = "task" =>
        \A c \in Clients :
            (Member(rooms, c) /\ ~Member(rooms', c)) => UserLeftSubmitted(c)]_vars

\* c1 has been dropped as a slow consumer, its read pump still reading, and
\* no USER_LEFT of c1 has been started, c2 still in the project
C29_Reached ==
    /\ variant = "task"
    /\ closed["c1"] /\ ~Member(rooms, "c1") /\ rpc["c1"] = "read"
    /\ <<"c1", TypeUserLeft>> \notin spawned
    /\ Member(rooms, "c2")

\* in q the USER_LEFT of c is ahead of the USER_JOINED of c
LeftAhead(q, c) ==
    \E i, j \in 1..Len(q) :
        /\ i < j
        /\ q[i] = GoMessage(c, TypeUserLeft)
        /\ q[j] = GoMessage(c, TypeUserJoined)

\* the USER_LEFT of c has been sent on h.broadcast
LeftSent(c) ==
    \/ \E i \in 1..Len(broadcast) : broadcast[i] = GoMessage(c, TypeUserLeft)
    \/ \E d \in Clients :
          \E i \in 1..Len(send[d]) : send[d][i] = GoMessage(c, TypeUserLeft)

(* C30 -- Join before leave: in the task hub the USER_JOINED of a          *)
(* connection reaches the dispatcher before its USER_LEFT: the USER_LEFT   *)
(* is never on the broadcast channel or in a recipient's queue while the   *)
(* USER_JOINED is still to be sent, and is never ahead of the USER_JOINED  *)
(* on the broadcast channel or in what a recipient has received.           *)
C30_JoinBeforeLeave ==
    variant = "task" =>
        \A c \in Clients :
            /\ LeftSent(c) => <<c, TypeUserJoined>> \notin spawned
            /\ ~LeftAhead(broadcast, c)
            /\ \A d \in Clients : ~LeftAhead(Received(d), c)

\* the dispatcher's next two requests are c1's USER_LEFT and then c1's
\* USER_JOINED, c2 in the project to receive them in that order
C30_Reached ==
    /\ variant = "task"
    /\ broadcast = <<GoMessage("c1", TypeUserLeft), GoMessage("c1", TypeUserJoined)>>
    /\ Member(rooms, "c2") /\ send["c2"] = <<>> /\ ~closed["c2"]

====
